---- MODULE Spec2Model ----
(***************************************************************************)
(* Token lifecycle (NextAuth jwt/session callbacks with Azure AD refresh),  *)
(* role check helper and the authenticated API proxy of setup-next-netgen.  *)
(*                                                                         *)
(* A JavaScript object is a function from its own keys to values: a key    *)
(* that is not in the DOMAIN reads as undefined.                           *)
(***************************************************************************)
EXTENDS Integers, Sequences, FiniteSets, TLC

----------------------------------------------------------------------------
(* Bounds of the model *)

\* the clock runs from 0 to MaxTicks steps of clockSkew milliseconds
MaxTicks == 3

\* number of requests the proxy entrypoint handles in one behaviour
MaxRequests == 2

\* number of refresh tokens a rotating provider redeems in one behaviour
MaxRotations == 2

----------------------------------------------------------------------------
(* Program constants *)

\* part_000:211  const clockSkew = 60 * 10 * 1000
clockSkew == 60 * 10 * 1000

\* part_000:185  session.maxAge
maxAge == 1 * 24 * 60 * 60

\* the callers of the jwt callback that may run concurrently
Calls == {1, 2}

\* the callers that run in Spec
Callers == {1}

----------------------------------------------------------------------------
(* JavaScript object helpers *)

Null == [null |-> TRUE]

Empty == [k \in {} |-> TRUE]

Has(o, k) == k \in DOMAIN o

\* !o.k : the key is missing or holds the empty string
Falsy(o, k) == ~Has(o, k) \/ o[k] = ""

Without(o, ks) == [k \in DOMAIN o \ ks |-> o[k]]

\* { ...o, k: src.sk } ; an undefined src.sk leaves k undefined in the result
Assign(o, k, src, sk) ==
  IF Has(src, sk) THEN (k :> src[sk]) @@ Without(o, {k}) ELSE Without(o, {k})

\* { ...o, k: v }
Put(o, k, v) == (k :> v) @@ Without(o, {k})

\* ...u of an object that may be undefined
Spread(u) == IF u = Null THEN Empty ELSE u

----------------------------------------------------------------------------
(* Inputs of the jwt callback *)

\* Account of the provider grant (part_000:72-82); refresh_token is optional
Accounts ==
  { [access_token |-> "A1", expires_at |-> t] : t \in {600, 1800} }
  \cup
  { [access_token |-> "A1", expires_at |-> t, refresh_token |-> r] :
      t \in {600, 1800}, r \in {"R1", ""} }

\* Profile of the id_token (part_000:85-99); roles are absent when the
\* account has no app role
Profiles ==
  { [oid |-> "oid1"], [oid |-> "oid1", roles |-> <<"admin">>] }

\* User handed over by the provider at sign-in
Users ==
  { [id |-> "u1", name |-> "Peter", email |-> "peter@euri.com",
     image |-> "img"] }

\* token of a first jwt call: name, email, picture, sub (part_000:36-41)
DefaultToken(user) ==
  IF user = Null THEN Empty
  ELSE Assign(Assign(Assign([sub |-> user.id], "name", user, "name"),
                     "email", user, "email"),
              "picture", user, "image")

\* Bodies of the token endpoint (part_000:102-117)
GrantBody == [access_token |-> "A2", refresh_token |-> "R2", expires_in |-> 600]

GrantBodyNoRefresh == [access_token |-> "A2", expires_in |-> 600]

ErrorBody == [error |-> "invalid_grant"]

Responses ==
  { [status |-> st, body |-> b] :
      st \in {200, 400}, b \in {GrantBody, GrantBodyNoRefresh, ErrorBody} }

\* a status check that forgets the upper end of the 2xx range
OkNoUpperBound(response) == response.status >= 200

\* response.ok
Ok(response) == response.status >= 200 /\ response.status <= 299

----------------------------------------------------------------------------
(* refreshAccessToken, part_000:123-170 *)

Return(claims) == [kind |-> "returned", claims |-> claims, error |-> ""]

Throw(message) == [kind |-> "threw", claims |-> Null, error |-> message]

\* a guard that takes the empty string for a refresh token
NoRefreshTokenAbsentOnly(token) == ~Has(token, "refreshToken")

\* part_000:125-128  the guard in front of the fetch
NoRefreshToken(token) == Falsy(token, "refreshToken")

\* part_000:130-143  number of requests a call sends to the token endpoint
\* once it is past the guard: one fetch, no retry
FetchCount(token) == IF NoRefreshToken(token) THEN 0 ELSE 1

\* a refreshed copy that subtracts the clock-skew margin as the sign in does
RefreshedClaimsSkewed(token, data, t) ==
  Assign(
    Put(
      Assign(token, "accessToken", data, "access_token"),
      "expiresAt", t + data.expires_in * 1000 - clockSkew),
    "refreshToken", data, "refresh_token")

\* a refreshed copy that keeps the refresh token of the old claims
RefreshedClaimsKeepRefresh(token, data, t) ==
  Put(Assign(token, "accessToken", data, "access_token"),
      "expiresAt", t + data.expires_in * 1000)

\* part_000:155-160  the refreshed copy of the token
RefreshedClaims(token, data, t) ==
  Assign(
    Put(
      Assign(token, "accessToken", data, "access_token"),
      "expiresAt", t + data.expires_in * 1000),
    "refreshToken", data, "refresh_token")

\* a variant that checks the HTTP status before it looks at the body
refreshAccessTokenStatusFirst(token, response, t) ==
  LET data == response.body IN
  IF ~(response.status \in 200..299)
    THEN Throw("Request failed: " \o ToString(response.status))
  ELSE IF Has(data, "error")
    THEN Throw("Failed to refresh accessToken: " \o data.error)
  ELSE Return(RefreshedClaims(token, data, t))

\* part_000:145-160  what the call does with the response, at time t
refreshAccessToken(token, response, t) ==
  LET data == response.body IN
  IF Has(data, "error")
    THEN Throw("Failed to refresh accessToken: " \o data.error)
  ELSE IF ~Ok(response)
    THEN Throw("Request failed: " \o ToString(response.status))
  ELSE Return(RefreshedClaims(token, data, t))

----------------------------------------------------------------------------
(* authOptions.callbacks.jwt, part_000:202-239 *)

\* the test of server/auth.ts:33, which looks at the account only
IsSignInAccountOnly(account, profile) == account # Null

\* part_000:205
IsSignIn(account, profile) == profile # Null /\ account # Null

\* a comparison that applies the clock-skew margin a second time
NotExpiredSkewed(token, t) ==
  Has(token, "expiresAt") /\ t + clockSkew < token.expiresAt

\* a comparison that takes the expiry instant itself as not expired
NotExpiredInclusive(token, t) ==
  Has(token, "expiresAt") /\ t <= token.expiresAt

\* part_000:233  Date.now() < token.expiresAt (false for an undefined expiry)
NotExpired(token, t) == Has(token, "expiresAt") /\ t < token.expiresAt

Branch(token, account, profile, t) ==
  IF IsSignIn(account, profile) THEN "signin"
  ELSE IF NotExpired(token, t) THEN "unchanged"
  ELSE "refresh"

\* an expiry without the clock-skew margin
SignInExpiryNoSkew(account) == account.expires_at * 1000

\* part_000:211-212  expiry of the initial sign in, in milliseconds
SignInExpiry(account) == account.expires_at * 1000 - clockSkew

\* part_000:210-223  claims of the initial sign in
SignInClaims(token, account, user, profile) ==
  LET expiresAt == SignInExpiry(account)
      c1 == [expiresAt |-> expiresAt]
      c2 == Assign(c1, "oid", profile, "oid")
      c3 == Assign(c2, "iat", token, "iat")
      c4 == Assign(c3, "exp", token, "exp")
      c5 == Assign(c4, "jti", token, "jti")
      c6 == Assign(c5, "accessToken", account, "access_token")
      c7 == Assign(c6, "refreshToken", account, "refresh_token")
      c8 == Assign(c7, "roles", profile, "roles")
  IN  Without(Spread(user), {"image"}) @@ c8

----------------------------------------------------------------------------
(* authOptions.callbacks.session, part_000:240-258 *)

\* the session next-auth hands to the callback: user with name, email and
\* image of the token, and the expiry of the session
DefaultSession(token) ==
  [user |-> Assign(Assign(Assign(Empty, "name", token, "name"),
                          "email", token, "email"),
                   "image", token, "picture"),
   expires |-> "expires"]

\* o.k || "" for a string field
OrEmpty(o, k) == IF Falsy(o, k) THEN "" ELSE o[k]

\* part_000:247  token.roles || []
RolesOrNone(token) == IF Has(token, "roles") THEN token.roles ELSE <<>>

\* part_000:244-246  new Date(0), setMilliseconds(ms),
\* toISOString().substring(11, 19): hours, minutes and seconds of the instant
TimeOfDay(ms) ==
  <<(ms \div 3600000) % 24, (ms \div 60000) % 60, (ms \div 1000) % 60>>

\* part_000:254  new Date(ms).toISOString(): day since the epoch and time of
\* that day
IsoString(ms) == <<ms \div 86400000, TimeOfDay(ms), ms % 1000>>

\* part_000:240-258
sessionCallback(sess, token, t) ==
  IF Has(sess, "user")
    THEN LET u1 == Assign(sess.user, "id", token, "oid")
             u2 == Put(u1, "name", OrEmpty(token, "name"))
             u3 == Put(u2, "email", OrEmpty(token, "email"))
             u4 == Put(u3, "roles", RolesOrNone(token))
         IN  [user |-> u4,
              expires |-> sess.expires,
              tokenExpiresAt |-> IsoString(token.expiresAt),
              tokenExpiresIn |-> TimeOfDay(token.expiresAt - t)]
    ELSE sess

----------------------------------------------------------------------------
(* userIsInRole, part_000:262-273 *)

\* longest role sequence the role check is tried on
MaxRoles == 2

\* part_000:262 Role, and a name that differs from a Role in case only
RoleNames == {"admin", "manager", "user"}

UserRoleNames == RoleNames \cup {"Admin"}

SeqsUpTo(S, n) == UNION { [1..k -> S] : k \in 0..n }

\* Session["user"] | undefined ; the roles key may be missing
RoleUsers ==
  {Null, [id |-> "u1"]}
  \cup { [id |-> "u1", roles |-> rs] : rs \in SeqsUpTo(UserRoleNames, MaxRoles) }

\* Role | Role[]
RequiredRoles ==
  { [one |-> r] : r \in RoleNames }
  \cup { [many |-> rs] : rs \in SeqsUpTo(RoleNames, MaxRoles) }

\* Array.prototype.includes
Includes(arr, r) == \E i \in DOMAIN arr : arr[i] = r

\* part_000:268  user?.roles || []
RolesOf(user) ==
  IF user # Null /\ Has(user, "roles") THEN user.roles ELSE <<>>

\* a check that asks for every required role instead of any
userIsInRoleEvery(user, role) ==
  LET userRoles == RolesOf(user) IN
  IF Has(role, "many")
    THEN \A j \in DOMAIN role.many : Includes(userRoles, role.many[j])
    ELSE Includes(userRoles, role.one)

\* part_000:264-273
userIsInRole(user, role) ==
  LET userRoles == RolesOf(user) IN
  IF Has(role, "many")
    THEN \E j \in DOMAIN role.many : Includes(userRoles, role.many[j])
    ELSE Includes(userRoles, role.one)

----------------------------------------------------------------------------
(* The API proxy route, pages/api/[...path].ts *)

\* headers of an inbound request: cookie and authorization are optional
Cookies == {"session=abc", "theme=dark", ""}

InboundHeaders ==
  {[host |-> "app"]}
  \cup { [host |-> "app", cookie |-> ck] : ck \in Cookies }
  \cup { [host |-> "app", cookie |-> ck, authorization |-> "bearer client"] :
           ck \in {"session=abc"} }

\* [...path].ts:63  the one upstream target
API_SERVER_URL == "process.env.API_SERVER_URL"

\* [...path].ts:71  getToken({ req }): the claims of the session cookie the
\* request carries, null without one
getToken(headers, sess) ==
  IF Has(headers, "cookie") /\ headers.cookie = "session=abc" THEN sess
  ELSE Null

\* a template literal prints a missing value as "undefined"
Str(o, k) == IF Has(o, k) THEN o[k] ELSE "undefined"

\* [...path].ts:74-76
AuthHeaders(token) ==
  IF token # Null
    THEN [authorization |-> "bearer " \o Str(token, "accessToken")]
    ELSE Null

\* [...path].ts:79  req.headers.cookie = ""
ClearCookie(headers) == Put(headers, "cookie", "")

\* [...path].ts:91-98  proxy.web: the outgoing request carries the headers of
\* req, overridden by options.headers
Outgoing(headers, extra) == Spread(extra) @@ headers

\* [...path].ts:18-48  the first default export: headers = {}, req untouched
ForwardFirst(headers, sess) == Outgoing(headers, Empty)

\* [...path].ts:67-98  the second default export
ForwardSecond(headers, sess) ==
  Outgoing(ClearCookie(headers), AuthHeaders(getToken(headers, sess)))

----------------------------------------------------------------------------
(* State *)

VARIABLES
  now,      \* Date.now(), in milliseconds
  session,  \* claims of the session cookie, Null when there is no session
  call,     \* call[c]: the jwt call of caller c that awaits the token endpoint
  last,     \* the jwt call that settled last: its arguments and its outcome
  preq,     \* the request the proxy route handles
  listeners,\* number of proxyReq listeners on the shared proxy
  handled,  \* number of requests the proxy route has taken
  roleCheck,\* the last call of userIsInRole: arguments and result
  redeemed  \* refresh tokens a rotating provider has redeemed

authVars == <<now, session, call, last>>

proxyVars == <<preq, listeners, handled>>

NoRequest ==
  [pc |-> "idle", def |-> 0, inbound |-> Null, token |-> Null, at |-> 0,
   forwarded |-> Null, target |-> "", attempts |-> 0,
   promise |-> "none", logs |-> 0]

NoCheck == [user |-> Null, role |-> Null, result |-> FALSE, done |-> FALSE]

NoArgs ==
  [token |-> Null, account |-> Null, profile |-> Null, user |-> Null,
   t0 |-> 0]

Idle == [pc |-> "idle", args |-> NoArgs, fetches |-> 0]

NoCall ==
  NoArgs @@
  [t1 |-> 0, branch |-> "none", fetches |-> 0, response |-> Null,
   kind |-> "none", claims |-> Null, error |-> ""]

\* The session cookie is re-encoded from the claims the callback returned:
\* the encoder sets iat, exp (part_000:185 maxAge) and jti. The callbacks
\* only copy these three values, the model fixes them.
Stamp(claims, t) ==
  Put(Put(Put(claims, "iat", 0), "exp", maxAge), "jti", "jti1")

\* a failure that leaves an anonymous session behind instead of none
SettleAnonymous(out, t) ==
  IF out.kind = "returned" THEN Stamp(out.claims, t) ELSE Stamp(Empty, t)

\* part_000:166-168  a thrown error invalidates the session, a returned
\* token becomes the session
Settle(out, t) ==
  IF out.kind = "returned" THEN Stamp(out.claims, t) ELSE Null

\* the record of a settled call
Settled(args, branch, fetches, response, t, out) ==
  args @@
  [t1 |-> t, branch |-> branch, fetches |-> fetches, response |-> response]
  @@ out

----------------------------------------------------------------------------
(* Actions of the token lifecycle *)

\* part_000:202-239 up to the first await: the whole call unless it has to
\* wait for the token endpoint
JwtCall(c, token, account, profile, user) ==
  /\ call[c].pc = "idle"
  /\ LET b == Branch(token, account, profile, now)
         args == [token |-> token, account |-> account, profile |-> profile,
                  user |-> user, t0 |-> now]
         done(out) ==
           /\ last' = Settled(args, b, 0, Null, now, out)
           /\ session' = Settle(out, now)
           /\ call' = call
     IN  CASE b = "signin" ->
                done(Return(SignInClaims(token, account, user, profile)))
           [] b = "unchanged" ->
                done(Return(token))
           [] b = "refresh" /\ NoRefreshToken(token) ->
                done(Throw("No refresh token available."))
           [] OTHER ->
                /\ call' = [call EXCEPT ![c] =
                     [pc |-> "fetching", args |-> args,
                      fetches |-> FetchCount(token)]]
                /\ UNCHANGED <<session, last>>
  /\ UNCHANGED <<now, proxyVars, roleCheck, redeemed>>

\* the arguments of a call that carries a grant: account, profile and user
\* of a sign in, or an account or a profile alone
GrantArgs ==
  { [account |-> a, profile |-> p, user |-> u] :
      a \in Accounts, p \in Profiles, u \in Users \cup {Null} }
  \cup
  { [account |-> a, profile |-> Null, user |-> Null] :
      a \in {x \in Accounts : x.expires_at = 1800 /\ ~Falsy(x, "refresh_token")} }
  \cup
  { [account |-> Null, profile |-> p, user |-> Null] :
      p \in {x \in Profiles : Has(x, "roles")} }

\* the first call after the authorization-code exchange, or any call that
\* carries an account or a profile
SignInCall(c) ==
  \E g \in GrantArgs :
    \E token \in {DefaultToken(g.user), session} \ {Null} :
      JwtCall(c, token, g.account, g.profile, g.user)

\* a later request: the token is the session
SessionCall(c) ==
  /\ session # Null
  /\ JwtCall(c, session, Null, Null, Null)

\* part_000:145-160  the rest of the call once the response is there
Respond(c, response) ==
  /\ call[c].pc = "fetching"
  /\ LET out == refreshAccessToken(call[c].args.token, response, now) IN
       /\ last' = Settled(call[c].args, "refresh", call[c].fetches,
                          response, now, out)
       /\ session' = Settle(out, now)
  /\ call' = [call EXCEPT ![c] = Idle]
  /\ UNCHANGED <<now, proxyVars, roleCheck>>

\* part_000:145-160  the token endpoint answers
FetchRespond(c, response) ==
  /\ Respond(c, response)
  /\ UNCHANGED redeemed

\* part_000:130-143  the answer of a token endpoint that rotates refresh
\* tokens: a redeemed refresh token is refused, any other one is exchanged
\* for the n-th new pair of tokens
RotatingAnswer(rt, n) ==
  IF rt \in redeemed
    THEN [status |-> 400, body |-> ErrorBody]
    ELSE [status |-> 200,
          body |-> [access_token |-> "A" \o ToString(n),
                    refresh_token |-> "R" \o ToString(n),
                    expires_in |-> 600]]

\* part_000:145-160  the rotating token endpoint answers
RotatingRespond(c) ==
  /\ call[c].pc = "fetching"
  /\ LET rt == call[c].args.token.refreshToken IN
       /\ rt \in redeemed \/ Cardinality(redeemed) < MaxRotations
       /\ Respond(c, RotatingAnswer(rt, Cardinality(redeemed) + 2))
       /\ redeemed' = redeemed \cup {rt}

\* part_000:130,145,161-168  fetch or response.json() rejects
FetchThrows(c) ==
  /\ call[c].pc = "fetching"
  /\ LET out == Throw("fetch failed") IN
       /\ last' = Settled(call[c].args, "refresh", call[c].fetches,
                          Null, now, out)
       /\ session' = Settle(out, now)
  /\ call' = [call EXCEPT ![c] = Idle]
  /\ UNCHANGED <<now, proxyVars, roleCheck, redeemed>>

\* time passes
Tick ==
  /\ now < MaxTicks * clockSkew
  /\ now' = now + clockSkew
  /\ UNCHANGED <<session, call, last, proxyVars, roleCheck, redeemed>>

----------------------------------------------------------------------------
(* Actions of the proxy route *)

\* [...path].ts:18-39 and 67-98  the route takes a request and hands it to
\* proxy.web; def says which of the two default exports of the file runs
ProxyHandle(def, headers) ==
  /\ preq.pc # "forwarding"
  /\ handled < MaxRequests
  /\ handled' = handled + 1
  /\ listeners' = IF def = 2 THEN listeners + 1 ELSE listeners
  /\ preq' = [pc |-> "forwarding", def |-> def, inbound |-> headers,
              token |-> IF def = 2 THEN getToken(headers, session) ELSE Null,
              at |-> now,
              forwarded |-> IF def = 2 THEN ForwardSecond(headers, session)
                                       ELSE ForwardFirst(headers, session),
              target |-> API_SERVER_URL,
              attempts |-> 1,
              promise |-> "pending",
              logs |-> IF def = 2 THEN listeners + 1 ELSE 0]
  /\ UNCHANGED <<authVars, roleCheck, redeemed>>

\* an error handler that sends the request upstream once more
ProxyErrorRetry ==
  /\ preq.pc = "forwarding"
  /\ preq.attempts < 3
  /\ preq' = [preq EXCEPT !.attempts = @ + 1]
  /\ UNCHANGED <<authVars, listeners, handled, roleCheck, redeemed>>

\* [...path].ts:40-43 and 99-102  proxy.web reports an error to the callback
ProxyError ==
  /\ preq.pc = "forwarding"
  /\ preq' = [preq EXCEPT !.pc = "failed", !.promise = "rejected"]
  /\ UNCHANGED <<authVars, listeners, handled, roleCheck, redeemed>>

\* [...path].ts:44 and 103  the callback is called without an error
ProxyResolve ==
  /\ preq.pc = "forwarding"
  /\ preq' = [preq EXCEPT !.pc = "ended", !.promise = "resolved"]
  /\ UNCHANGED <<authVars, listeners, handled, roleCheck, redeemed>>

\* the upstream exchange ends without an error: http-proxy calls the callback
\* of proxy.web for errors only, so line 44/103 resolve() is not reached
ProxyEnd ==
  /\ preq.pc = "forwarding"
  /\ preq' = [preq EXCEPT !.pc = "ended"]
  /\ UNCHANGED <<authVars, listeners, handled, roleCheck, redeemed>>

----------------------------------------------------------------------------
(* Action of the role check *)

RoleCheck(user, role) ==
  /\ roleCheck' = [user |-> user, role |-> role,
                   result |-> userIsInRole(user, role), done |-> TRUE]
  /\ UNCHANGED <<authVars, proxyVars, redeemed>>

----------------------------------------------------------------------------
(* Specifications *)

vars ==
  <<now, session, call, last, preq, listeners, handled, roleCheck, redeemed>>

Init ==
  /\ now = 0
  /\ session = Null
  /\ call = [c \in Calls |-> Idle]
  /\ last = NoCall
  /\ preq = NoRequest
  /\ listeners = 0
  /\ handled = 0
  /\ roleCheck = NoCheck
  /\ redeemed = {}

Next ==
  \/ \E c \in Callers : SignInCall(c)
  \/ \E c \in Callers : SessionCall(c)
  \/ \E c \in Callers, response \in Responses : FetchRespond(c, response)
  \/ \E c \in Callers : FetchThrows(c)
  \/ Tick

\* the token lifecycle: one caller of the jwt callback
Spec == Init /\ [][Next]_vars

\* server/auth.ts:31-40  the jwt callback of the credentials set-up: the
\* token of a sign in is { ...token, user }
CredentialsClaims(token, user) == Put(token, "user", user)

\* sessions the proxy route may meet: none, the claims of a sign in with
\* either authOptions
ProxySessions ==
  {Null}
  \cup { Stamp(SignInClaims(DefaultToken(u), a, u, p), 0) :
           a \in Accounts, u \in Users, p \in Profiles }
  \cup { Stamp(CredentialsClaims(DefaultToken(u), u), 0) : u \in Users }

InitProxy ==
  /\ now = 0
  /\ session \in ProxySessions
  /\ call = [c \in Calls |-> Idle]
  /\ last = NoCall
  /\ preq = NoRequest
  /\ listeners = 0
  /\ handled = 0
  /\ roleCheck = NoCheck
  /\ redeemed = {}

NextProxy ==
  \/ \E def \in {1, 2}, headers \in InboundHeaders : ProxyHandle(def, headers)
  \/ ProxyError
  \/ ProxyResolve
  \/ ProxyEnd

\* the proxy route over a fixed session
SpecProxy == InitProxy /\ [][NextProxy]_vars

NextRole == \E user \in RoleUsers, role \in RequiredRoles : RoleCheck(user, role)

\* userIsInRole over its arguments
SpecRole == Init /\ [][NextRole]_vars

\* the sign in of the end-to-end runs: a grant with a refresh token
E2EAccount == [access_token |-> "A1", expires_at |-> 1800, refresh_token |-> "R1"]

E2EProfile == [oid |-> "oid1", roles |-> <<"admin">>]

E2EUser ==
  [id |-> "u1", name |-> "Peter", email |-> "peter@euri.com", image |-> "img"]

\* requests of the end-to-end runs: with and without the session cookie
E2EHeaders == {[host |-> "app"], [host |-> "app", cookie |-> "session=abc"]}

\* part_000:202-224  the jwt call of the sign in
SignIn(c) == JwtCall(c, DefaultToken(E2EUser), E2EAccount, E2EProfile, E2EUser)

NextE2E ==
  \/ \E c \in Callers : SignIn(c)
  \/ \E c \in Callers : SessionCall(c)
  \/ \E c \in Callers, response \in Responses : FetchRespond(c, response)
  \/ \E c \in Callers : FetchThrows(c)
  \/ Tick
  \/ \E def \in {1, 2}, headers \in E2EHeaders : ProxyHandle(def, headers)
  \/ ProxyError
  \/ ProxyResolve
  \/ ProxyEnd

\* sign in, revalidation, refresh and proxy requests of one browser
SpecE2E == Init /\ [][NextE2E]_vars

\* the sessions of a sign in with a refresh token
SignedIn ==
  { Stamp(SignInClaims(DefaultToken(E2EUser), a, E2EUser, p), 0) :
      a \in {x \in Accounts : ~Falsy(x, "refresh_token")}, p \in Profiles }

InitRace ==
  /\ now = 0
  /\ session \in SignedIn
  /\ call = [c \in Calls |-> Idle]
  /\ last = NoCall
  /\ preq = NoRequest
  /\ listeners = 0
  /\ handled = 0
  /\ roleCheck = NoCheck
  /\ redeemed = {}

NextRace ==
  \/ \E c \in Calls : SessionCall(c)
  \/ \E c \in Calls : RotatingRespond(c)
  \/ \E c \in Calls : FetchThrows(c)
  \/ Tick

\* two requests of a signed-in browser at a time, against a token endpoint
\* that rotates refresh tokens
SpecRace == InitRace /\ [][NextRace]_vars

----------------------------------------------------------------------------
(* Properties of the token lifecycle, stated on the call that settled last *)

HasSettled == last.kind # "none"

\* the call carried both a new account grant and a profile
WithGrant == last.account # Null /\ last.profile # Null

\* now < claims.expiresAt when the call was made
FreshAtCall == Has(last.token, "expiresAt") /\ last.t0 < last.token.expiresAt

\* now >= claims.expiresAt when the call was made
ExpiredAtCall == Has(last.token, "expiresAt") /\ last.t0 >= last.token.expiresAt

\* the claims hold a refresh token that is not empty
HoldsRefreshToken ==
  Has(last.token, "refreshToken") /\ last.token.refreshToken # ""

\* C1: a call without a new grant and profile, made while now < expiresAt,
\* returns the input claims unchanged in every field and sends no request to
\* the token endpoint.
C1_FreshUnchanged ==
  (HasSettled /\ ~WithGrant /\ FreshAtCall) =>
    /\ last.kind = "returned"
    /\ last.claims = last.token
    /\ last.fetches = 0

C1_Witness ==
  /\ HasSettled /\ ~WithGrant /\ FreshAtCall
  /\ last.claims = last.token
  /\ Has(last.token, "refreshToken")
  /\ last.t0 > 0

\* C2: a call without a new grant, made when now >= expiresAt with a
\* non-empty refresh token, calls the token endpoint exactly once, while it
\* waits for the answer and when it has settled.
C2_OneFetch ==
  /\ (HasSettled /\ ~WithGrant /\ ExpiredAtCall /\ HoldsRefreshToken) =>
       last.fetches = 1
  /\ \A c \in Calls :
       call[c].pc = "fetching" =>
         /\ call[c].fetches = 1
         /\ ~Falsy(call[c].args.token, "refreshToken")

C2_Witness ==
  /\ HasSettled /\ ~WithGrant /\ ExpiredAtCall /\ HoldsRefreshToken
  /\ last.fetches = 1
  /\ last.t0 = last.token.expiresAt

\* C3 as stated: every call without a new grant on claims whose refresh
\* token is empty or absent fails with the no-refresh-token error and sends
\* no request.
C3_Original ==
  (HasSettled /\ ~WithGrant /\ Falsy(last.token, "refreshToken")) =>
    /\ last.kind = "threw"
    /\ last.error = "No refresh token available."
    /\ last.fetches = 0

\* C3: a call without a new grant and profile on claims whose refresh token
\* is empty or absent fails with the no-refresh-token error when the claims
\* are not fresh (not now < expiresAt), and in no case sends a request to the
\* token endpoint.
C3_NoRefreshToken ==
  (HasSettled /\ Falsy(last.token, "refreshToken")) =>
    /\ last.fetches = 0
    /\ last.response = Null
    /\ (~WithGrant /\ ~FreshAtCall) =>
         /\ last.kind = "threw"
         /\ last.error = "No refresh token available."
         /\ last.claims = Null

C3_Witness ==
  /\ HasSettled /\ ~WithGrant /\ ExpiredAtCall
  /\ Has(last.token, "refreshToken") /\ last.token.refreshToken = ""
  /\ last.error = "No refresh token available."

\* the three fields a refresh replaces
Refreshed == {"accessToken", "refreshToken", "expiresAt"}

\* field k of object a is field j of object b, both undefined included
SameField(a, k, b, j) ==
  /\ Has(a, k) <=> Has(b, j)
  /\ Has(a, k) => a[k] = b[j]

\* C4: the claims a successful refresh returns are the old claims but for
\* accessToken = access_token and refreshToken = refresh_token of the
\* response and expiresAt = now + expires_in * 1000, now being the instant
\* the response is handled, without a clock-skew margin; every other field
\* is unchanged.
C4_RefreshFrame ==
  (last.branch = "refresh" /\ last.kind = "returned") =>
    /\ SameField(last.claims, "accessToken", last.response.body, "access_token")
    /\ SameField(last.claims, "refreshToken", last.response.body, "refresh_token")
    /\ last.claims.expiresAt = last.t1 + last.response.body.expires_in * 1000
    /\ DOMAIN last.claims \ Refreshed = DOMAIN last.token \ Refreshed
    /\ \A k \in DOMAIN last.token \ Refreshed : last.claims[k] = last.token[k]

C4_Witness ==
  /\ last.branch = "refresh" /\ last.kind = "returned"
  /\ last.t1 > last.t0
  /\ Has(last.claims, "refreshToken") /\ Has(last.token, "refreshToken")
  /\ last.claims.accessToken # last.token.accessToken
  /\ last.claims.refreshToken # last.token.refreshToken
  /\ {"oid", "roles", "name", "email", "iat", "exp", "jti"}
       \subseteq DOMAIN last.claims

C6_SignInBranch ==
  /\ HasSettled =>
       /\ last.branch = "signin" <=> WithGrant
       /\ WithGrant =>
            /\ last.fetches = 0
            /\ last.response = Null
            /\ last.kind = "returned"
  /\ \A c \in Calls :
       call[c].pc = "fetching" =>
         (call[c].args.account = Null \/ call[c].args.profile = Null)

C6_Witness ==
  /\ HasSettled /\ WithGrant /\ ExpiredAtCall
  /\ last.branch = "signin"
  /\ last.claims.expiresAt <= last.t0
  /\ last.fetches = 0

\* the token endpoint answered the call with an error-shaped body
ErrorShaped == last.response # Null /\ Has(last.response.body, "error")

\* C7: an error-shaped body makes the refresh fail with the provider error
\* whatever the HTTP status, 200 included; no claims are returned and the
\* session is gone.
C7_ErrorBody ==
  ErrorShaped =>
    /\ last.kind = "threw"
    /\ last.error = "Failed to refresh accessToken: invalid_grant"
    /\ last.claims = Null

C7_Witness ==
  /\ ErrorShaped
  /\ last.response.status = 200
  /\ last.kind = "threw"
  /\ session = Null

\* C8: an answer with a non-successful status and a body that is not
\* error-shaped makes the refresh fail with the HTTP-status error that
\* carries the status code; no claims are returned.
C8_HttpStatus ==
  (last.response # Null /\ ~ErrorShaped
     /\ ~(last.response.status \in 200..299)) =>
    /\ last.kind = "threw"
    /\ last.error = "Request failed: " \o ToString(last.response.status)
    /\ last.claims = Null

C8_Witness ==
  /\ last.response # Null /\ ~ErrorShaped
  /\ last.response.status = 400
  /\ last.error = "Request failed: 400"
  /\ last.kind = "threw"

----------------------------------------------------------------------------
(* Property of the role check *)

Range(seq) == { seq[i] : i \in DOMAIN seq }

\* the role set of the user of the last check
CheckedUserRoles ==
  IF roleCheck.user = Null \/ ~Has(roleCheck.user, "roles") THEN {}
  ELSE Range(roleCheck.user.roles)

\* the roles the last check asked for
CheckedRequired ==
  IF Has(roleCheck.role, "many") THEN Range(roleCheck.role.many)
  ELSE {roleCheck.role.one}

\* C9: userIsInRole is true iff the role set of the user and the required
\* role or roles share a string, compared exactly; an absent user, a user
\* without roles and an empty required sequence give false.
C9_RoleCheck ==
  roleCheck.done =>
    (roleCheck.result <=> (CheckedUserRoles \cap CheckedRequired # {}))

C9_Witness ==
  /\ roleCheck.done
  /\ roleCheck.result
  /\ Has(roleCheck.role, "many")
  /\ Cardinality(CheckedRequired) = 2
  /\ Cardinality(CheckedUserRoles \cap CheckedRequired) = 1
  /\ "Admin" \in CheckedUserRoles

----------------------------------------------------------------------------
(* Properties of the proxy route *)

\* C10: the request forwarded upstream carries an empty or absent cookie
\* header, whatever the inbound cookie and with or without a session token.
C10_NoCookieUpstream ==
  preq.pc # "idle" =>
    (Has(preq.forwarded, "cookie") => preq.forwarded.cookie = "")

\* the access token the route has for the request, "" without one
TokenAtHand ==
  IF preq.token # Null /\ Has(preq.token, "accessToken")
    THEN preq.token.accessToken
    ELSE ""

\* C11: the forwarded request carries an authorization header only when the
\* route has a non-empty access token, and the header is then exactly
\* "bearer " followed by that token; without a session token, or with a
\* session token without accessToken, no authorization header is forwarded.
C11_AuthorizationHeader ==
  (preq.pc # "idle" /\ Has(preq.forwarded, "authorization")) =>
    /\ TokenAtHand # ""
    /\ preq.forwarded.authorization = "bearer " \o TokenAtHand

\* C12: whatever requests came before, a forwarded request never carries an
\* authorization header built from a session token whose expiresAt is <= now
\* at the time the route handles the request.
C12_NoStaleToken ==
  (preq.pc # "idle" /\ Has(preq.forwarded, "authorization")
     /\ preq.token # Null /\ Has(preq.token, "expiresAt")) =>
    preq.at < preq.token.expiresAt

\* C13: every call of the route settles: its promise is resolved once the
\* upstream exchange has ended without an error and rejected once a proxy
\* error occurred; no request stays unsettled after its exchange has ended.
C13_Settles ==
  /\ preq.pc = "ended" => preq.promise = "resolved"
  /\ preq.pc = "failed" => preq.promise = "rejected"

----------------------------------------------------------------------------
(* Further properties of the token lifecycle *)

\* the branch the arguments of the settled call ask for
ExpectedBranch ==
  IF WithGrant THEN "signin"
  ELSE IF FreshAtCall THEN "unchanged"
  ELSE "refresh"

\* the refresh of the settled call met one of the failures
RefreshFailure ==
  \/ Falsy(last.token, "refreshToken")
  \/ last.response = Null
  \/ Has(last.response.body, "error")
  \/ ~(last.response.status \in 200..299)

\* C14: a call runs exactly one of sign in, unchanged revalidation and
\* refresh, and a refresh is all or nothing: any failure makes the call throw
\* with no claims and no session left, a success takes accessToken,
\* refreshToken and expiresAt all three from the response.
C14_Atomic ==
  HasSettled =>
    /\ last.branch = ExpectedBranch
    /\ last.branch = "signin" =>
         /\ last.kind = "returned" /\ last.fetches = 0
         /\ SameField(last.claims, "accessToken", last.account, "access_token")
         /\ SameField(last.claims, "refreshToken", last.account, "refresh_token")
    /\ last.branch = "unchanged" =>
         /\ last.kind = "returned" /\ last.fetches = 0
         /\ last.claims = last.token
    /\ last.branch = "refresh" =>
         IF RefreshFailure
           THEN /\ last.kind = "threw"
                /\ last.claims = Null
                /\ session = Null
           ELSE /\ last.kind = "returned"
                /\ SameField(last.claims, "accessToken",
                             last.response.body, "access_token")
                /\ SameField(last.claims, "refreshToken",
                             last.response.body, "refresh_token")
                /\ last.claims.expiresAt
                     = last.t1 + last.response.body.expires_in * 1000
                /\ session # Null
                /\ \A k \in Refreshed : SameField(session, k, last.claims, k)

C14_Witness ==
  /\ last.branch = "refresh"
  /\ last.kind = "threw"
  /\ last.response # Null
  /\ last.response.status = 400
  /\ last.response.body = GrantBody
  /\ last.token.accessToken = "A1"
  /\ session = Null

----------------------------------------------------------------------------
(* Further properties of the proxy route *)

\* the step belongs to the request in hand, it does not take a new one
SameRequest == handled' = handled

\* C15: a request goes Idle -> Forwarding -> Completed or Failed: it is sent
\* upstream once, to the one configured target, a proxy error is not followed
\* by another attempt, a finished request does not change any more and a
\* settled promise is not settled again.
C15_StateMachine ==
  [][ /\ preq.pc = "idle" => preq'.pc \in {"idle", "forwarding"}
      /\ (preq.pc = "forwarding" /\ SameRequest) =>
           /\ preq'.pc \in {"forwarding", "ended", "failed"}
           /\ preq'.attempts = preq.attempts
           /\ preq'.target = preq.target
           /\ preq'.forwarded = preq.forwarded
      /\ preq.pc = "forwarding" => SameRequest
      /\ (preq.pc \in {"ended", "failed"} /\ SameRequest) => preq' = preq
      /\ (preq.promise \in {"resolved", "rejected"} /\ SameRequest) =>
           preq'.promise = preq.promise
      /\ preq'.pc # "idle" =>
           /\ preq'.attempts = 1
           /\ preq'.target = API_SERVER_URL
      /\ preq'.pc = "failed" => preq'.promise = "rejected"
      /\ preq'.promise = "rejected" => preq'.pc = "failed"
    ]_vars

C15_Witness ==
  /\ preq.pc = "failed"
  /\ preq.promise = "rejected"
  /\ preq.attempts = 1
  /\ handled = 2

----------------------------------------------------------------------------
(* Property of concurrent refreshes *)

\* caller c settles its refresh in this step
Settles(c) == call[c].pc = "fetching" /\ call'[c].pc = "idle"

\* C16: refreshes are not coalesced. A caller that waits for the token
\* endpoint has sent its own request, whatever the other caller does, so two
\* callers can be in flight with the same refresh token; against a provider
\* that rotates refresh tokens the caller whose refresh token is still good
\* gets the new tokens, and the caller whose refresh token has been redeemed
\* by the other one fails and leaves no session.
C16_NoCoalescing ==
  [][ \A c \in Calls :
        /\ (call'[c].pc = "fetching") =>
             /\ call'[c].fetches = 1
             /\ ~Falsy(call'[c].args.token, "refreshToken")
        /\ (call[c].pc = "idle" /\ call'[c].pc = "fetching") =>
             /\ call'[c].args.token = session
             /\ \A d \in Calls \ {c} : call'[d] = call[d]
        /\ (Settles(c) /\ last'.response # Null) =>
             IF call[c].args.token.refreshToken \in redeemed
               THEN /\ last'.kind = "threw"
                    /\ last'.error
                         = "Failed to refresh accessToken: invalid_grant"
                    /\ session' = Null
               ELSE /\ last'.kind = "returned"
                    /\ session' # Null
                    /\ session'.refreshToken # call[c].args.token.refreshToken
                    /\ call[c].args.token.refreshToken \in redeemed'
    ]_vars

C16_Witness ==
  /\ \A c \in Calls : call[c].pc = "idle"
  /\ last.kind = "threw"
  /\ last.error = "Failed to refresh accessToken: invalid_grant"
  /\ last.fetches = 1
  /\ last.token.refreshToken = "R1"
  /\ redeemed = {"R1"}
  /\ session = Null

----------------------------------------------------------------------------
(* Invariants of the claims *)

\* C17: a successful refresh of claims that hold a refresh token returns
\* claims with a non-empty refresh token, and an answer without refresh_token
\* makes the refresh fail.
C17_RefreshTokenKept ==
  (last.branch = "refresh" /\ HoldsRefreshToken) =>
    /\ last.kind = "returned" =>
         /\ Has(last.claims, "refreshToken")
         /\ last.claims.refreshToken # ""
    /\ (last.response # Null /\ ~Has(last.response.body, "refresh_token")) =>
         last.kind = "threw"

\* the expiry the provider states for the access token of the settled call:
\* expires_at of the grant, or expires_in counted from the answer, which the
\* provider did not send later than the call handled it
ProviderExpiry ==
  IF last.branch = "signin"
    THEN last.account.expires_at * 1000
    ELSE last.t1 + last.response.body.expires_in * 1000

\* C18: the expiresAt of the claims of a sign in and of every successful
\* refresh is at least the clock-skew margin of 600000 ms earlier than the
\* expiry the provider states for the access token.
C18_SkewApplied ==
  (last.kind = "returned" /\ last.branch \in {"signin", "refresh"}) =>
    last.claims.expiresAt + 600000 <= ProviderExpiry

\* the session the session callback makes of the session token
ClientSession == sessionCallback(DefaultSession(session), session, now)

\* C19: the claims every jwt call returns and the session the session
\* callback makes of them carry a role sequence, the empty one when the
\* profile has no roles; roles are never undefined.
C19_RolesDefined ==
  /\ last.kind = "returned" => Has(last.claims, "roles")
  /\ (last.branch = "signin" /\ ~Has(last.profile, "roles")) =>
       (Has(last.claims, "roles") /\ last.claims.roles = <<>>)
  /\ (session # Null /\ Has(session, "expiresAt")) =>
       Has(ClientSession.user, "roles")


\* C20: handling a request leaves the shared proxy as it was: the number of
\* proxyReq listeners on it stays bounded by one however many requests were
\* handled, and a forwarded request is logged once.
C20_ListenersBounded ==
  /\ listeners <= 1
  /\ (preq.pc # "idle" /\ preq.def = 2) => preq.logs = 1

====
